---- MODULE Spec2Model ----
(***************************************************************************)
(* A model of the document bowl of src/src/soup.ts: the three indexes,     *)
(* write/upsert, the write events sent to onWrite callbacks, and the       *)
(* followers.                                                              *)
(*                                                                         *)
(* Paths and signatures are strings in the code and are compared with the  *)
(* string order; here they are integers compared with the integer order.   *)
(* A signature identifies the signed fields of a document: signDoc gives   *)
(* every written document a fresh 'sig' + uuid, so two documents with the  *)
(* same signature are copies of one document.                              *)
(***************************************************************************)
EXTENDS Integers, Sequences, FiniteSets, TLC

\* ---------------------------------------------------------------- bounds

MaxTimestamp == 2     \* timestamps of documents arriving from other peers
MaxDocs == 2          \* distinct documents ever passed to upsert
MaxWrites == 1        \* documents written on the peers' replicas after the set-up

Paths == {1, 2}
Authors == {"A", "B"}
Contents == {"x"}
Sigs == 1..MaxDocs
Nows == 1..MaxTimestamp + 1      \* readings of the local clock, now()
CbIds == {"cb1", "cb2"}
SyncIds == {"f1"}               \* the followers registered as sync
AsyncIds == {"f2"}              \* the followers registered as async
FollowerIds == SyncIds \cup AsyncIds
NextIndexes == {1, 2}     \* the nextIndex a new follower declares

\* ---------------------------------------------------------------- values

undefined == [undefined |-> TRUE]
NoCall == [op |-> "none"]

LT == -1
EQ == 0
GT == 1

Obsolete == -3
AlreadyHadIt == -2
Invalid == -1
AcceptedButNotLatest == 1
AcceptedAndLatest == 2

\* The signed fields of a document: everything but _localIndex.
signed(doc) ==
    [path |-> doc.path, timestamp |-> doc.timestamp, author |-> doc.author,
     content |-> doc.content, signature |-> doc.signature]

VARIABLES
    highestLocalIndex,      \* Bowl.highestLocalIndex
    docWithLocalIndex,      \* Map localIndex -> doc
    docWithPathAndAuthor,   \* Map path|author -> doc
    docsByPathNewestFirst,  \* Map path -> array of docs
    onWriteCbs,             \* the registered onWrite callbacks, in insertion order
    followers,              \* the registered followers, in insertion order
    follower,               \* the Follower objects: kind, nextIndex, state
    task,                   \* each follower's task: pc, docs left, _localIndex last delivered
    calls,                  \* the onWrite callbacks the latest call invoked, in order
    fcalls,                 \* the follower callbacks the latest step invoked, in order
    seen,                   \* the signed fields of every doc passed to upsert
    last,                   \* the upsert or write call of the latest step, if it was one
    earlier,                \* what an earlier bowl, given up since, answered
    outer,                  \* the call of the bowl that is waiting inside a callback
    sync,                   \* two peers and the SyncCoordinator between them
    cache                   \* a ReplicaCache over the bowl

bowlVars == <<highestLocalIndex, docWithLocalIndex, docWithPathAndAuthor,
              docsByPathNewestFirst>>
vars == <<highestLocalIndex, docWithLocalIndex, docWithPathAndAuthor,
          docsByPathNewestFirst, onWriteCbs, followers, follower, task,
          calls, fcalls, seen, last, earlier, outer, sync, cache>>
extraVars == <<earlier, outer, sync, cache>>

\* ---------------------------------------------------------------- helpers

\* utils.arrayCompare on two-element arrays: element by element.
arrayCompare(a, b) ==
    IF a[1] < b[1] THEN LT
    ELSE IF a[1] > b[1] THEN GT
    ELSE IF a[2] < b[2] THEN LT
    ELSE IF a[2] > b[2] THEN GT
    ELSE EQ

combinePathAndAuthor(doc) == <<doc.path, doc.author>>

docComparePathThenNewestFirst(a, b) ==
    IF a.signature = b.signature THEN EQ
    ELSE arrayCompare(<<a.path, -a.timestamp>>, <<b.path, -b.timestamp>>)

docCompareForOverwriteIgnoresSignature(newDoc, oldDoc) ==
    arrayCompare(<<newDoc.timestamp, 0>>, <<oldDoc.timestamp, 0>>)

docCompareForOverwrite(newDoc, oldDoc) ==
    arrayCompare(<<newDoc.timestamp, newDoc.signature>>,
                 <<oldDoc.timestamp, oldDoc.signature>>)

docIsValid(doc) == TRUE

\* Array.prototype.sort with docComparePathThenNewestFirst: a stable sort.
\* The element at i goes behind the elements that compare lower and behind
\* the equal ones that stood before it.
sortPathThenNewestFirst(docs) ==
    LET n == Len(docs)
        before(i) == {j \in 1..n :
            \/ docComparePathThenNewestFirst(docs[j], docs[i]) = LT
            \/ /\ docComparePathThenNewestFirst(docs[j], docs[i]) = EQ
               /\ j < i}
    IN  [k \in 1..n |-> docs[CHOOSE i \in 1..n : Cardinality(before(i)) = k - 1]]

getLatestDocAtPath(path) ==
    IF path \notin DOMAIN docsByPathNewestFirst THEN undefined
    ELSE docsByPathNewestFirst[path][1]

getAllDocsAtPath(path) ==
    IF path \notin DOMAIN docsByPathNewestFirst THEN undefined
    ELSE docsByPathNewestFirst[path]

\* getAllDocs(false): the values of docWithLocalIndex in insertion order,
\* which is the order of the keys.
getAllDocsUnsorted ==
    LET keys == DOMAIN docWithLocalIndex
        nth(k) == CHOOSE i \in keys : Cardinality({j \in keys : j < i}) = k - 1
    IN  [k \in 1..Cardinality(keys) |-> docWithLocalIndex[nth(k)]]

getAllDocs == sortPathThenNewestFirst(getAllDocsUnsorted)

\* Map.set: add or replace one entry.
MapSet(map, key, value) ==
    [k \in DOMAIN map \cup {key} |-> IF k = key THEN value ELSE map[k]]

\* ---------------------------------------------------------------- upsert

\* What upsert(doc) computes from the bowl as it stands.
upsertExisting(doc) ==
    IF combinePathAndAuthor(doc) \in DOMAIN docWithPathAndAuthor
    THEN docWithPathAndAuthor[combinePathAndAuthor(doc)]
    ELSE undefined

upsertRejection(doc) ==
    IF ~docIsValid(doc) THEN Invalid
    ELSE IF upsertExisting(doc) = undefined THEN 0
    ELSE IF docCompareForOverwrite(doc, upsertExisting(doc)) = LT THEN Obsolete
    ELSE IF docCompareForOverwrite(doc, upsertExisting(doc)) = EQ THEN AlreadyHadIt
    ELSE 0


upsertStoredDocKeepsLocalIndex(doc) ==
    [path |-> doc.path, timestamp |-> doc.timestamp, author |-> doc.author,
     content |-> doc.content, signature |-> doc.signature,
     _localIndex |-> IF doc._localIndex # 0 THEN doc._localIndex
                     ELSE highestLocalIndex + 1]

\* The doc as it is stored: _localIndex overwritten with the bowl's next one.
upsertStoredDoc(doc) ==
    [path |-> doc.path, timestamp |-> doc.timestamp, author |-> doc.author,
     content |-> doc.content, signature |-> doc.signature,
     _localIndex |-> highestLocalIndex + 1]

\* The array of docs at the path after the push and the sort.
upsertDocsSamePath(doc) ==
    sortPathThenNewestFirst(Append(
        IF doc.path \in DOMAIN docsByPathNewestFirst
        THEN docsByPathNewestFirst[doc.path] ELSE <<>>,
        upsertStoredDoc(doc)))

upsertResult(doc) ==
    IF upsertDocsSamePath(doc)[1] = upsertStoredDoc(doc)
    THEN AcceptedAndLatest ELSE AcceptedButNotLatest

upsertPreviousLatestDocAlways(doc) ==
    IF Len(upsertDocsSamePath(doc)) > 1
    THEN upsertDocsSamePath(doc)[2] ELSE undefined

upsertPreviousLatestDoc(doc) ==
    IF /\ upsertDocsSamePath(doc)[1] = upsertStoredDoc(doc)
       /\ Len(upsertDocsSamePath(doc)) > 1
    THEN upsertDocsSamePath(doc)[2] ELSE undefined

upsertWriteEvent(doc) ==
    [doc |-> upsertStoredDoc(doc),
     isLatest |-> upsertResult(doc) = AcceptedAndLatest,
     previousDocSameAuthor |-> upsertExisting(doc),
     previousLatestDoc |-> upsertPreviousLatestDoc(doc)]

\* The value upsert(doc) returns.
upsertReturn(doc) ==
    IF upsertRejection(doc) # 0 THEN upsertRejection(doc) ELSE upsertResult(doc)

Registered == {onWriteCbs[i] : i \in 1..Len(onWriteCbs)}
Following == {followers[i] : i \in 1..Len(followers)}

upsertCallsFirstOnly(doc) ==
    [i \in 1..(IF Len(onWriteCbs) > 0 THEN 1 ELSE 0) |->
        [cb |-> onWriteCbs[i], event |-> upsertWriteEvent(doc)]]

\* The send-events loop: one call per registered callback, in Set order.
upsertCalls(doc) ==
    [i \in 1..Len(onWriteCbs) |-> [cb |-> onWriteCbs[i], event |-> upsertWriteEvent(doc)]]

\* The update-followers loop, for one follower of the set.
upsertFollower(f) ==
    IF follower[f].kind = "sync"
    THEN [follower[f] EXCEPT !.nextIndex = highestLocalIndex + 2]
    ELSE IF follower[f].state = "sleeping"
    THEN [follower[f] EXCEPT !.state = "running"]    \* wakeAsyncFollower
    ELSE follower[f]

\* The follower callbacks the update-followers loop calls, in Set order.
upsertFollowerCalls(doc) ==
    LET syncs == SelectSeq(followers, LAMBDA f : follower[f].kind = "sync")
    IN  [i \in 1..Len(syncs) |-> [follower |-> syncs[i], doc |-> upsertStoredDoc(doc)]]

upsertReturnsEarlyOnlyIfInvalid(doc) == ~docIsValid(doc)

\* The returns of upsert that come before anything is saved.
upsertReturnsEarly(doc) == upsertRejection(doc) # 0

upsert(doc) ==
    /\ seen' = seen \cup {signed(doc)}
    /\ IF upsertReturnsEarly(doc)
       THEN /\ UNCHANGED <<bowlVars, follower, task>>
            /\ calls' = <<>>
            /\ fcalls' = <<>>
       ELSE /\ highestLocalIndex' = highestLocalIndex + 1
            /\ docWithLocalIndex' =
                   MapSet(docWithLocalIndex, highestLocalIndex + 1, upsertStoredDoc(doc))
            /\ docsByPathNewestFirst' =
                   MapSet(docsByPathNewestFirst, doc.path, upsertDocsSamePath(doc))
            /\ docWithPathAndAuthor' =
                   MapSet(docWithPathAndAuthor, combinePathAndAuthor(doc),
                          upsertStoredDoc(doc))
            /\ calls' = upsertCalls(doc)
            /\ follower' = [f \in DOMAIN follower |->
                   IF f \in Following THEN upsertFollower(f) ELSE follower[f]]
            /\ fcalls' = upsertFollowerCalls(doc)
            /\ task' = [f \in DOMAIN task |->
                   IF /\ f \in Following
                      /\ follower[f].kind = "async"
                      /\ follower[f].state = "sleeping"
                   THEN [task[f] EXCEPT !.pc = "scheduled"]    \* setImmediate
                   ELSE IF f \in Following /\ follower[f].kind = "sync"
                   THEN [task[f] EXCEPT !.delivered = highestLocalIndex + 1]
                   ELSE task[f]]
    /\ UNCHANGED <<onWriteCbs, followers, extraVars>>

\* ---------------------------------------------------------------- write

writeTimestampNow(path, now) == now

\* The timestamp write gives the new doc.
writeTimestamp(path, now) ==
    IF getLatestDocAtPath(path) = undefined THEN now
    ELSE getLatestDocAtPath(path).timestamp + 1

writeDoc(address, path, content, now, sig) ==
    [path |-> path, timestamp |-> writeTimestamp(path, now), author |-> address,
     content |-> content, signature |-> sig, _localIndex |-> 0]

\* ---------------------------------------------------------------- queries

\* The characters of each path, for startsWith: path 1 is "ab", path 2 is
\* "ba", which keeps the order of the paths.
PathText(path) == IF path = 1 THEN <<"a", "b">> ELSE <<"b", "a">>
Texts == {<<"a">>, <<"b">>}

\* String.prototype.startsWith.
startsWith(text, s) ==
    /\ Len(s) <= Len(text)
    /\ SubSeq(text, 1, Len(s)) = s

\* Buffer.byteLength of the contents of the model.
byteLength(content) == IF content = "x" THEN 1 ELSE 0
contentLength(doc) == byteLength(doc.content)

\* An object with optional fields is a record of the fields that are set;
\* NoFields is {} and Has(obj, field) is obj.field !== undefined.
NoFields == [field \in {} |-> TRUE]
Has(obj, field) == field \in DOMAIN obj

docMatchesFilter(doc, filter) ==
    /\ Has(filter, "path") => doc.path = filter.path
    /\ Has(filter, "pathStartsWith") =>
           startsWith(PathText(doc.path), filter.pathStartsWith)
    /\ Has(filter, "pathEndsWith") =>
           startsWith(PathText(doc.path), filter.pathEndsWith)
    /\ Has(filter, "author") => doc.author = filter.author
    /\ Has(filter, "timestamp") => doc.timestamp = filter.timestamp
    /\ Has(filter, "timestampGt") => doc.timestamp > filter.timestampGt
    /\ Has(filter, "timestampLt") => doc.timestamp > filter.timestampLt
    /\ Has(filter, "contentLength") => contentLength(doc) = filter.contentLength
    /\ Has(filter, "contentLengthGt") => contentLength(doc) > filter.contentLengthGt
    /\ Has(filter, "contentLengthLt") => contentLength(doc) > filter.contentLengthLt

defaultQuery == [history |-> "latest", orderBy |-> "path ASC"]

\* { ...defaultQuery, ...query }
withDefaults(query) ==
    IF query = undefined THEN defaultQuery ELSE query @@ defaultQuery

\* The elements of a set of integers in ascending order.
sortAscending(S) ==
    [k \in 1..Cardinality(S) |->
        CHOOSE x \in S : Cardinality({y \in S : y < x}) = k - 1]

Reverse(seq) == [k \in 1..Len(seq) |-> seq[Len(seq) + 1 - k]]

Range(seq) == {seq[i] : i \in 1..Len(seq)}

\* getLatestDocs(false): element 0 of every array of docsByPathNewestFirst in
\* the insertion order of the Map. No array ever loses a document, so a path
\* was inserted when the lowest _localIndex of its array was assigned.
getLatestDocsUnsorted ==
    LET keys == DOMAIN docsByPathNewestFirst
        first(path) == CHOOSE i \in {d._localIndex : d \in Range(docsByPathNewestFirst[path])} :
                          \A d \in Range(docsByPathNewestFirst[path]) : i <= d._localIndex
        nth(k) == CHOOSE path \in keys :
                      Cardinality({other \in keys : first(other) < first(path)}) = k - 1
    IN  [k \in 1..Cardinality(keys) |-> docsByPathNewestFirst[nth(k)][1]]

getLatestDocsLast ==
    LET keys == sortAscending(DOMAIN docsByPathNewestFirst)
    IN  [k \in 1..Len(keys) |->
            docsByPathNewestFirst[keys[k]][Len(docsByPathNewestFirst[keys[k]])]]

\* getLatestDocs(): the same documents sorted by path; the paths differ.
getLatestDocs ==
    LET keys == sortAscending(DOMAIN docsByPathNewestFirst)
    IN  [k \in 1..Len(keys) |-> docsByPathNewestFirst[keys[k]][1]]

\* docs.sort(keyComparer('_localIndex')): a stable sort.
sortByLocalIndex(docs) ==
    LET n == Len(docs)
        before(i) == {j \in 1..n :
            \/ docs[j]._localIndex < docs[i]._localIndex
            \/ /\ docs[j]._localIndex = docs[i]._localIndex
               /\ j < i}
    IN  [k \in 1..n |-> docs[CHOOSE i \in 1..n : Cardinality(before(i)) = k - 1]]

\* The docs of queryDocs in the order of iteration.
queryDocsOrdered(q) ==
    LET docs == IF q.history = "all" THEN getAllDocsUnsorted
                ELSE getLatestDocsUnsorted
        sorted == IF q.orderBy \in {"path ASC", "path DESC"}
                  THEN sortPathThenNewestFirst(docs)
                  ELSE IF q.orderBy \in {"localIndex ASC", "localIndex DESC"}
                  THEN sortByLocalIndex(docs)
                  ELSE docs
    IN  IF q.orderBy \in {"path DESC", "localIndex DESC"} THEN Reverse(sorted)
        ELSE sorted

queryDocsSkipsExclusive(q, doc) ==
    /\ Has(q, "startAt")
    /\ \/ /\ q.orderBy = "path ASC"
          /\ Has(q.startAt, "path")
          /\ doc.path <= q.startAt.path
       \/ /\ q.orderBy = "path DESC"
          /\ Has(q.startAt, "path")
          /\ doc.path >= q.startAt.path
       \/ /\ q.orderBy = "localIndex ASC"
          /\ Has(q.startAt, "localIndex")
          /\ doc._localIndex <= q.startAt.localIndex
       \/ /\ q.orderBy = "localIndex DESC"
          /\ Has(q.startAt, "localIndex")
          /\ doc._localIndex >= q.startAt.localIndex

\* The loop of queryDocs skips doc because of startAt.
queryDocsSkips(q, doc) ==
    /\ Has(q, "startAt")
    /\ \/ /\ q.orderBy = "path ASC"
          /\ Has(q.startAt, "path")
          /\ doc.path < q.startAt.path
       \/ /\ q.orderBy = "path DESC"
          /\ Has(q.startAt, "path")
          /\ doc.path > q.startAt.path
       \/ /\ q.orderBy = "localIndex ASC"
          /\ Has(q.startAt, "localIndex")
          /\ doc._localIndex < q.startAt.localIndex
       \/ /\ q.orderBy = "localIndex DESC"
          /\ Has(q.startAt, "localIndex")
          /\ doc._localIndex > q.startAt.localIndex

\* The loop of queryDocs over the docs left, with filteredDocs so far.
RECURSIVE queryDocsLoop(_, _, _)
queryDocsLoop(q, docs, filteredDocs) ==
    IF docs = <<>> THEN filteredDocs
    ELSE IF queryDocsSkips(q, Head(docs))
    THEN queryDocsLoop(q, Tail(docs), filteredDocs)
    ELSE IF Has(q, "filter") /\ ~docMatchesFilter(Head(docs), q.filter)
    THEN queryDocsLoop(q, Tail(docs), filteredDocs)
    ELSE IF Has(q, "limit") /\ Len(filteredDocs) + 1 >= q.limit
    THEN Append(filteredDocs, Head(docs))
    ELSE queryDocsLoop(q, Tail(docs), Append(filteredDocs, Head(docs)))

queryDocs(query) ==
    queryDocsLoop(withDefaults(query), queryDocsOrdered(withDefaults(query)), <<>>)

queryPathsAscending(query) ==
    IF query = undefined \/ DOMAIN query = {}
    THEN sortAscending(DOMAIN docsByPathNewestFirst)
    ELSE sortAscending({doc.path : doc \in Range(queryDocs(query))})

\* queryPaths(query); the query {} is the one without fields.
queryPaths(query) ==
    LET paths == IF query = undefined \/ DOMAIN query = {}
                 THEN DOMAIN docsByPathNewestFirst
                 ELSE {doc.path : doc \in Range(queryDocs(query))}
    IN  IF query # undefined /\ Has(query, "orderBy") /\ query.orderBy = "path DESC"
        THEN Reverse(sortAscending(paths))
        ELSE sortAscending(paths)

\* ---------------------------------------------------------------- followers

NoLimit == -1

\* The docs with _localIndex >= startAt, lowest first, up to limit of them.
getDocsSinceLocalIndex(startAt, limit) ==
    LET keys == {i \in DOMAIN docWithLocalIndex :
                    i >= startAt /\ i <= highestLocalIndex}
        nth(k) == CHOOSE i \in keys : Cardinality({j \in keys : j < i}) = k - 1
        n == IF limit # NoLimit /\ limit < Cardinality(keys)
             THEN limit ELSE Cardinality(keys)
    IN  [k \in 1..n |-> docWithLocalIndex[nth(k)]]

BatchSize == 40

\* No earlier bowl has answered.
NoBowl == [given |-> FALSE]

\* No call of the bowl is waiting inside a callback.
NoOuter == [pc |-> "idle"]

\* No peer, replica or coordinator has been made yet.
InitSync == [made |-> FALSE]
\* A new ReplicaCache: version 0, no entry held, nothing of the replica seen.
InitCache == [closed |-> FALSE, version |-> 0, held |-> <<>>, processed |-> 0]

Init ==
    /\ earlier = NoBowl
    /\ outer = NoOuter
    /\ sync = InitSync
    /\ cache = InitCache
    /\ highestLocalIndex = 0
    /\ docWithLocalIndex = <<>>
    /\ docWithPathAndAuthor = <<>>
    /\ docsByPathNewestFirst = <<>>
    /\ onWriteCbs = <<>>
    /\ followers = <<>>
    /\ follower = <<>>
    /\ task = <<>>
    /\ calls = <<>>
    /\ fcalls = <<>>
    /\ seen = {}
    /\ last = NoCall

\* ---------------------------------------------------------------- actions

\* The docs another peer can hand to upsert. A doc whose signature was seen
\* before is that same doc again.
IncomingDocs ==
    [path : Paths, timestamp : 1..MaxTimestamp, author : Authors,
     content : Contents, signature : Sigs, _localIndex : {0, 9}]

UsedSigs == {s.signature : s \in seen}

UpsertFrom(docs) ==
    \E doc \in docs :
        /\ \A s \in seen : s.signature = doc.signature => s = signed(doc)
        /\ signed(doc) \in seen \/ Cardinality(seen) < MaxDocs
        /\ upsert(doc)
        /\ last' = [op |-> "upsert", doc |-> signed(doc),
                    result |-> upsertReturn(doc), now |-> 0]

\* write(keypair, docToWrite) with the clock reading now; signDoc draws a
\* fresh signature.
WriteAt(paths) ==
    \E address \in Authors, path \in paths, content \in Contents,
       now \in Nows, sig \in Sigs \ UsedSigs :
        /\ Cardinality(seen) < MaxDocs
        /\ upsert(writeDoc(address, path, content, now, sig))
        /\ last' = [op |-> "write",
                    doc |-> signed(writeDoc(address, path, content, now, sig)),
                    result |-> upsertReturn(writeDoc(address, path, content, now, sig)),
                    now |-> now]

Upsert == UpsertFrom(IncomingDocs)
Write == WriteAt(Paths)

SeqRemove(s, x) == SelectSeq(s, LAMBDA y : y # x)

OnWrite ==
    \E cb \in CbIds :
        /\ onWriteCbs' = IF cb \in Registered THEN onWriteCbs
                         ELSE Append(onWriteCbs, cb)
        /\ calls' = <<>>
        /\ fcalls' = <<>>
        /\ last' = NoCall
        /\ UNCHANGED <<bowlVars, followers, follower, task, seen, extraVars>>

\* The thunk onWrite returned.
OnWriteUnsubscribe ==
    \E cb \in CbIds :
        /\ onWriteCbs' = SeqRemove(onWriteCbs, cb)
        /\ calls' = <<>>
        /\ fcalls' = <<>>
        /\ last' = NoCall
        /\ UNCHANGED <<bowlVars, followers, follower, task, seen, extraVars>>

\* The docs and paths of the specifications of events and followers.
EventDocs == {doc \in IncomingDocs : doc.path = 1}
FollowerDocs ==
    [path : Paths, timestamp : {1}, author : {"A"},
     content : Contents, signature : Sigs, _localIndex : {0}]

UpsertEvents == UpsertFrom(EventDocs)
WriteEvents == WriteAt({1})
UpsertFollowers == UpsertFrom(FollowerDocs)

OnWriteOne ==
    /\ onWriteCbs' = IF "cb1" \in Registered THEN onWriteCbs
                     ELSE Append(onWriteCbs, "cb1")
    /\ calls' = <<>>
    /\ fcalls' = <<>>
    /\ last' = NoCall
    /\ UNCHANGED <<bowlVars, followers, follower, task, seen, extraVars>>

addFollowerCallsAfterNextIndex(f, nextIndex) ==
    LET docs == getDocsSinceLocalIndex(nextIndex + 1, NoLimit)
    IN  [i \in 1..Len(docs) |-> [follower |-> f, doc |-> docs[i]]]

\* The _localIndex of the last document a sequence of follower calls handed
\* over, 0 when it handed over none.
lastDelivered(cs) == IF cs = <<>> THEN 0 ELSE cs[Len(cs)].doc._localIndex

\* addFollower of a sync follower: the catch-up runs before it returns.
\* The field declared keeps the nextIndex the follower object had when it was
\* passed to addFollower; the code never reads it.
addFollowerCalls(f, nextIndex) ==
    LET docs == getDocsSinceLocalIndex(nextIndex, NoLimit)
    IN  [i \in 1..Len(docs) |-> [follower |-> f, doc |-> docs[i]]]

AddSyncFollower ==
    \E f \in SyncIds \ DOMAIN follower, nextIndex \in NextIndexes :
        /\ followers' = Append(followers, f)
        /\ follower' = MapSet(follower, f,
               [kind |-> "sync", nextIndex |-> nextIndex, state |-> "sleeping",
                declared |-> nextIndex])
        /\ fcalls' = addFollowerCalls(f, nextIndex)
        /\ task' = MapSet(task, f, [pc |-> "none", docs |-> <<>>,
                                    delivered |-> lastDelivered(addFollowerCalls(f, nextIndex))])
        /\ calls' = <<>>
        /\ last' = NoCall
        /\ UNCHANGED <<bowlVars, onWriteCbs, seen, extraVars>>

\* addFollower of an async follower: wakeAsyncFollower sets it running and
\* schedules continueAsyncFollower with setImmediate.
AddAsyncFollower ==
    \E f \in AsyncIds \ DOMAIN follower, nextIndex \in NextIndexes :
        /\ followers' = Append(followers, f)
        /\ follower' = MapSet(follower, f,
               [kind |-> "async", nextIndex |-> nextIndex, state |-> "running",
                declared |-> nextIndex])
        /\ task' = MapSet(task, f, [pc |-> "scheduled", docs |-> <<>>, delivered |-> 0])
        /\ calls' = <<>>
        /\ fcalls' = <<>>
        /\ last' = NoCall
        /\ UNCHANGED <<bowlVars, onWriteCbs, seen, extraVars>>

\* The thunk addFollower returned.
Unsubscribe ==
    \E f \in DOMAIN follower :
        /\ follower' = [follower EXCEPT ![f].state = "sleeping"]
        /\ followers' = SeqRemove(followers, f)
        /\ calls' = <<>>
        /\ fcalls' = <<>>
        /\ last' = NoCall
        /\ UNCHANGED <<bowlVars, onWriteCbs, task, seen, extraVars>>

\* The scheduled continueAsyncFollower runs up to its first await. The task
\* remembers in delivered the _localIndex of the doc it called the callback
\* with last, which is the doc whose callback it is awaiting.
ContinueAsyncFollower ==
    \E f \in DOMAIN task :
        /\ task[f].pc = "scheduled"
        /\ IF follower[f].state = "quitting"
           THEN /\ task' = [task EXCEPT ![f].pc = "none"]
                /\ fcalls' = <<>>
                /\ UNCHANGED follower
           ELSE IF follower[f].state = "sleeping"
           THEN /\ task' = [task EXCEPT ![f].pc = "threw"]
                /\ fcalls' = <<>>
                /\ UNCHANGED follower
           ELSE IF follower[f].nextIndex > highestLocalIndex
           THEN /\ follower' = [follower EXCEPT ![f].state = "sleeping"]
                /\ task' = [task EXCEPT ![f].pc = "none"]
                /\ fcalls' = <<>>
           ELSE LET docs == getDocsSinceLocalIndex(follower[f].nextIndex, BatchSize)
                IN  /\ UNCHANGED follower
                    /\ IF docs = <<>>
                       THEN /\ task' = [task EXCEPT ![f].pc = "scheduled"]
                            /\ fcalls' = <<>>
                       ELSE /\ task' = [task EXCEPT ![f] =
                                   [pc |-> "awaiting", docs |-> Tail(docs),
                                    delivered |-> Head(docs)._localIndex]]
                            /\ fcalls' = <<[follower |-> f, doc |-> Head(docs)]>>
        /\ calls' = <<>>
        /\ last' = NoCall
        /\ UNCHANGED <<bowlVars, onWriteCbs, followers, seen, extraVars>>

\* The awaited callback has finished: the loop calls the next one, or the
\* batch is over and continueAsyncFollower is scheduled again.
ResumeAsyncFollower ==
    \E f \in DOMAIN task :
        /\ task[f].pc = "awaiting"
        /\ IF task[f].docs = <<>>
           THEN /\ task' = [task EXCEPT ![f].pc = "scheduled"]
                /\ fcalls' = <<>>
           ELSE /\ task' = [task EXCEPT ![f] =
                       [pc |-> "awaiting", docs |-> Tail(task[f].docs),
                        delivered |-> Head(task[f].docs)._localIndex]]
                /\ fcalls' = <<[follower |-> f, doc |-> Head(task[f].docs)]>>
        /\ calls' = <<>>
        /\ last' = NoCall
        /\ UNCHANGED <<bowlVars, onWriteCbs, followers, follower, seen, extraVars>>

\* The queries asked of the bowl: every combination of history, orderBy and
\* limit, the startAt of each axis, and one filter at a time or a few together.
OrderBys == {"path ASC", "path DESC", "localIndex ASC", "localIndex DESC"}
Limits == {0, 1, 2}
StartAts ==
    {[path |-> path] : path \in Paths} \cup {[localIndex |-> i] : i \in {1, 2}}
Filters ==
    {[path |-> 1], [author |-> "A"]}
    \cup {[pathStartsWith |-> s] : s \in Texts}
    \cup {[pathEndsWith |-> s] : s \in Texts}
    \cup {[timestamp |-> t] : t \in {1, 2}}
    \cup {[timestampGt |-> 1], [timestampLt |-> 2]}
    \cup {[contentLength |-> 1], [contentLengthGt |-> 0], [contentLengthLt |-> 2]}
    \cup {[timestampGt |-> 1, author |-> "A"],
          [timestampLt |-> 2, contentLengthGt |-> 0],
          [pathStartsWith |-> <<"a">>, timestamp |-> 1]}
Queries ==
    {undefined}
    \cup {history @@ orderBy @@ limit :
            history \in {NoFields, [history |-> "latest"], [history |-> "all"]},
            orderBy \in {NoFields} \cup {[orderBy |-> o] : o \in OrderBys},
            limit \in {NoFields} \cup {[limit |-> n] : n \in Limits}}
    \cup {[history |-> "all", orderBy |-> o, startAt |-> startAt] @@ limit :
            o \in OrderBys, startAt \in StartAts,
            limit \in {NoFields, [limit |-> 1]}}
    \cup {[filter |-> filter] @@ history @@ limit :
            filter \in Filters,
            history \in {NoFields, [history |-> "all"]},
            limit \in {NoFields, [limit |-> 0], [limit |-> 1]}}

\* A bowl is filled by upserts and then queried. A query changes nothing in
\* the bowl, so whatever follows a query reaches no bowl that the upserts
\* before it do not reach, and the query is the last step.
QueryOps == {"queryDocs", "queryPaths"}

QueryDocs ==
    \E query \in Queries :
        /\ last.op \notin QueryOps
        /\ last' = [op |-> "queryDocs", query |-> query,
                    result |-> queryDocs(query)]
        /\ calls' = <<>>
        /\ fcalls' = <<>>
        /\ UNCHANGED <<bowlVars, onWriteCbs, followers, follower, task, seen, extraVars>>

QueryPaths ==
    \E query \in Queries :
        /\ last.op \notin QueryOps
        /\ last' = [op |-> "queryPaths", query |-> query,
                    result |-> queryPaths(query)]
        /\ calls' = <<>>
        /\ fcalls' = <<>>
        /\ UNCHANGED <<bowlVars, onWriteCbs, followers, follower, task, seen, extraVars>>

\* The docs upserted into a bowl that is queried: one document, with a
\* signature of its own, for every path, timestamp and author.
QueryBowlDocs ==
    {[path |-> path, timestamp |-> timestamp, author |-> author,
      content |-> "x",
      signature |-> 4 * (path - 1) + 2 * (timestamp - 1)
                    + (IF author = "A" THEN 1 ELSE 2),
      _localIndex |-> 0] :
        path \in Paths, timestamp \in {1, 2}, author \in Authors}
UpsertQuery ==
    /\ last.op \notin QueryOps
    /\ UpsertFrom(QueryBowlDocs)

\* What a bowl answers once every document has arrived: all its documents in
\* ascending path order and the latest document of every path, on their
\* signed fields.
queryAllByPath == queryDocs([history |-> "all", orderBy |-> "path ASC"])
bowlAnswers ==
    [docs |-> [i \in 1..Len(queryAllByPath) |-> signed(queryAllByPath[i])],
     latest |-> [path \in Paths |->
                    IF getLatestDocAtPath(path) = undefined THEN undefined
                    ELSE signed(getLatestDocAtPath(path))]]

\* new Bowl(): the bowl is given up for a new, empty one, to which documents
\* arrive in an order of their own; what the first was given and what it
\* answered is kept.
NewBowl ==
    /\ ~earlier.given
    /\ seen # {}
    /\ earlier' = [given |-> TRUE, seen |-> seen, answers |-> bowlAnswers]
    /\ highestLocalIndex' = 0
    /\ docWithLocalIndex' = <<>>
    /\ docWithPathAndAuthor' = <<>>
    /\ docsByPathNewestFirst' = <<>>
    /\ seen' = {}
    /\ last' = NoCall
    /\ calls' = <<>>
    /\ fcalls' = <<>>
    /\ UNCHANGED <<onWriteCbs, followers, follower, task, outer, sync, cache>>

UpsertOrder == UpsertFrom(QueryBowlDocs)

\* ---- callbacks that call the bowl again
\* A callback may call upsert before it returns: the outer call waits inside
\* the callback, the inner upsert runs to its end on the bowl as the outer
\* call left it, and the outer call goes on where it was. outer holds
\* the waiting call: the loop it is in, the position in the loop and what it
\* hands to the callbacks.

\* The update-followers loop over the positions from..to of the followers
\* Set, for the stored doc; highestLocalIndex is read when the loop runs.
upsertFollowersLoop(from, to, doc) ==
    LET inLoop(f) == \E i \in from..to : followers[i] = f
        syncs == SelectSeq(SubSeq(followers, from, to),
                           LAMBDA f : follower[f].kind = "sync")
    IN  /\ follower' = [f \in DOMAIN follower |->
               IF ~inLoop(f) THEN follower[f]
               ELSE IF follower[f].kind = "sync"
               THEN [follower[f] EXCEPT !.nextIndex = highestLocalIndex' + 1]
               ELSE IF follower[f].state = "sleeping"
               THEN [follower[f] EXCEPT !.state = "running"]
               ELSE follower[f]]
        /\ fcalls' = [i \in 1..Len(syncs) |-> [follower |-> syncs[i], doc |-> doc]]
        /\ task' = [f \in DOMAIN task |->
               IF ~inLoop(f) THEN task[f]
               ELSE IF follower[f].kind = "sync"
               THEN [task[f] EXCEPT !.delivered = doc._localIndex]
               ELSE IF follower[f].state = "sleeping"
               THEN [task[f] EXCEPT !.pc = "scheduled"]
               ELSE task[f]]

\* An accepted upsert whose k-th onWrite callback, or whose sync follower at
\* position k, calls the bowl again before it returns.
UpsertSuspends ==
    \E doc \in FollowerDocs :
        /\ outer.pc = "idle"
        /\ \A s \in seen : s.signature = doc.signature => s = signed(doc)
        /\ signed(doc) \in seen \/ Cardinality(seen) < MaxDocs
        /\ ~upsertReturnsEarly(doc)
        /\ seen' = seen \cup {signed(doc)}
        /\ highestLocalIndex' = highestLocalIndex + 1
        /\ docWithLocalIndex' =
               MapSet(docWithLocalIndex, highestLocalIndex + 1, upsertStoredDoc(doc))
        /\ docsByPathNewestFirst' =
               MapSet(docsByPathNewestFirst, doc.path, upsertDocsSamePath(doc))
        /\ docWithPathAndAuthor' =
               MapSet(docWithPathAndAuthor, combinePathAndAuthor(doc),
                      upsertStoredDoc(doc))
        /\ \/ \E k \in 1..Len(onWriteCbs) :
                  /\ calls' = SubSeq(upsertCalls(doc), 1, k)
                  /\ fcalls' = <<>>
                  /\ UNCHANGED <<follower, task>>
                  /\ outer' = [pc |-> "onWriteCbs", at |-> k,
                               doc |-> upsertStoredDoc(doc),
                               event |-> upsertWriteEvent(doc),
                               result |-> upsertReturn(doc)]
           \/ \E k \in 1..Len(followers) :
                  /\ follower[followers[k]].kind = "sync"
                  /\ calls' = upsertCalls(doc)
                  /\ upsertFollowersLoop(1, k, upsertStoredDoc(doc))
                  /\ outer' = [pc |-> "followers", at |-> k,
                               doc |-> upsertStoredDoc(doc),
                               event |-> upsertWriteEvent(doc),
                               result |-> upsertReturn(doc)]
        /\ last' = NoCall
        /\ UNCHANGED <<onWriteCbs, followers, earlier, sync, cache>>

\* addFollower of a sync follower whose callback, called with the k-th doc of
\* the catch-up, calls the bowl again before it returns. The catch-up loop
\* runs over the array getDocsSinceLocalIndex returned.
AddSyncFollowerSuspends ==
    \E f \in SyncIds \ DOMAIN follower, nextIndex \in NextIndexes :
        \E k \in 1..Len(addFollowerCalls(f, nextIndex)) :
            /\ outer.pc = "idle"
            /\ followers' = Append(followers, f)
            /\ follower' = MapSet(follower, f,
                   [kind |-> "sync", nextIndex |-> nextIndex, state |-> "running",
                    declared |-> nextIndex])
            /\ fcalls' = SubSeq(addFollowerCalls(f, nextIndex), 1, k)
            /\ task' = MapSet(task, f, [pc |-> "none", docs |-> <<>>,
                   delivered |-> addFollowerCalls(f, nextIndex)[k].doc._localIndex])
            /\ outer' = [pc |-> "catchUp", follower |-> f,
                         calls |-> SubSeq(addFollowerCalls(f, nextIndex), k + 1,
                                          Len(addFollowerCalls(f, nextIndex)))]
            /\ calls' = <<>>
            /\ last' = NoCall
            /\ UNCHANGED <<bowlVars, onWriteCbs, seen, earlier, sync, cache>>

\* The callback the outer call waits in returns: an upsert finishes its
\* send-events loop and runs the update-followers loop, or finishes the
\* update-followers loop; addFollower finishes the catch-up.
ResumeOuter ==
    /\ outer.pc # "idle"
    /\ UNCHANGED <<bowlVars, onWriteCbs, followers, seen, earlier, sync, cache>>
    /\ outer' = NoOuter
    /\ CASE outer.pc = "onWriteCbs" ->
                /\ calls' = [i \in 1..(Len(onWriteCbs) - outer.at) |->
                                [cb |-> onWriteCbs[outer.at + i], event |-> outer.event]]
                /\ upsertFollowersLoop(1, Len(followers), outer.doc)
                /\ last' = [op |-> "upsert", doc |-> signed(outer.doc),
                            result |-> outer.result, now |-> 0]
         [] outer.pc = "followers" ->
                /\ calls' = <<>>
                /\ upsertFollowersLoop(outer.at + 1, Len(followers), outer.doc)
                /\ last' = [op |-> "upsert", doc |-> signed(outer.doc),
                            result |-> outer.result, now |-> 0]
         [] outer.pc = "catchUp" ->
                /\ calls' = <<>>
                /\ fcalls' = outer.calls
                /\ follower' = [follower EXCEPT ![outer.follower].state = "sleeping"]
                /\ task' = IF outer.calls = <<>> THEN task
                           ELSE [task EXCEPT ![outer.follower].delivered =
                                                 lastDelivered(outer.calls)]
                /\ last' = NoCall

\* While a call waits inside a callback, the callback calls upsert.
OnWriteIdle == outer.pc = "idle" /\ OnWriteOne
AddSyncFollowerIdle == outer.pc = "idle" /\ AddSyncFollower

\* ---- a callback that throws
\* Neither loop of upsert is inside a try: what a callback throws leaves the
\* loop and upsert at once, after the doc was saved. last keeps who threw.

\* An accepted upsert whose k-th onWrite callback, or whose sync follower at
\* position k, throws.
UpsertThrows ==
    \E doc \in FollowerDocs :
        /\ \A s \in seen : s.signature = doc.signature => s = signed(doc)
        /\ signed(doc) \in seen \/ Cardinality(seen) < MaxDocs
        /\ ~upsertReturnsEarly(doc)
        /\ seen' = seen \cup {signed(doc)}
        /\ highestLocalIndex' = highestLocalIndex + 1
        /\ docWithLocalIndex' =
               MapSet(docWithLocalIndex, highestLocalIndex + 1, upsertStoredDoc(doc))
        /\ docsByPathNewestFirst' =
               MapSet(docsByPathNewestFirst, doc.path, upsertDocsSamePath(doc))
        /\ docWithPathAndAuthor' =
               MapSet(docWithPathAndAuthor, combinePathAndAuthor(doc),
                      upsertStoredDoc(doc))
        /\ \/ \E k \in 1..Len(onWriteCbs) :
                  /\ calls' = SubSeq(upsertCalls(doc), 1, k)
                  /\ fcalls' = <<>>
                  /\ UNCHANGED <<follower, task>>
                  /\ last' = [op |-> "upsert", doc |-> signed(doc),
                              threw |-> onWriteCbs[k], now |-> 0]
           \/ \E k \in 1..Len(followers) :
                  /\ follower[followers[k]].kind = "sync"
                  /\ calls' = upsertCalls(doc)
                  /\ upsertFollowersLoop(1, k, upsertStoredDoc(doc))
                  /\ last' = [op |-> "upsert", doc |-> signed(doc),
                              threw |-> followers[k], now |-> 0]
        /\ UNCHANGED <<onWriteCbs, followers, extraVars>>

\* ---- two peers and their SyncCoordinators
\* The set-up is that of the SyncCoordinator test; what start, the
\* SyncSession loop, getDocs and syncUntilCaughtUp do follows the
\* specification's section on SyncCoordinator and SyncSession. A replica is
\* the sequence of its docs in _localIndex order; the docs written by
\* writeRandomDocs have paths of their own, so a replica keeps every doc it
\* accepts.

SyncPeers == {"peer", "targetPeer"}
partnerOf(p) == IF p = "peer" THEN "targetPeer" ELSE "peer"

\* ADDRESS_A .. ADDRESS_D, in the order the coordinator lists them.
Addresses == <<"A", "B", "C", "D">>

\* The replicas added to each peer.
peerReplicasBothHoldB(p) == {"A", "B", "D"}
peerReplicas(p) == IF p = "peer" THEN {"A", "B", "D"} ELSE {"A", "C", "D"}

\* writeRandomDocs(keypair, storage, 10), on the four replicas of A and D.
RandomDocs == 10
writeRandomDocs(p, share) ==
    IF share \in {"A", "D"}
    THEN [i \in 1..RandomDocs |-> [share |-> share, writer |-> p, n |-> i]]
    ELSE <<>>

\* SyncCoordinator requests 10 docs at a time.
BatchLimitEverything == RandomDocs + RandomDocs
BatchLimitNothing == RandomDocs - RandomDocs
BatchLimit == 10

\* A fixed hash of the salt and the share address.
saltedHash(salt, share) == <<salt, share>>
ConnectionSalt == "salt"

\* What saltedHandshake returns on peer p.
saltedHandshake(p, salt) ==
    [peerId |-> p, saltedShares |-> {saltedHash(salt, a) : a \in DOMAIN sync.replica[p]}]

\* The common shares peer p finds from its partner's answer.
commonSharesOf(p) ==
    LET theirs == saltedHandshake(partnerOf(p), ConnectionSalt).saltedShares
    IN  SelectSeq(Addresses, LAMBDA a :
            a \in DOMAIN sync.replica[p] /\ saltedHash(ConnectionSalt, a) \in theirs)

NewSession ==
    [pc |-> "idle", partnerMaxLocalIndexSoFar |-> 0, pulled |-> 0,
     caughtUp |-> FALSE, lastSeenPartnerIndex |-> 0,
     requests |-> <<>>, fetched |-> <<>>]

\* getDocs(share, fromIndex, limit) served by peer p: the _localIndex values
\* of the docs it returns, ascending.
getDocsIndexes(p, share, fromIndex, limit) ==
    LET all == Len(sync.replica[p][share]) - fromIndex
        n == IF all < 0 THEN 0 ELSE IF all > limit THEN limit ELSE all
    IN  [i \in 1..n |-> fromIndex + i]

\* The replica after the upsert of each doc of a batch: a doc it holds
\* already is not stored again.
ingest(replica, docs) ==
    replica \o SelectSeq(docs, LAMBDA d : d \notin Range(replica))

nonSyncVars == <<highestLocalIndex, docWithLocalIndex, docWithPathAndAuthor,
                 docsByPathNewestFirst, onWriteCbs, followers, follower, task,
                 calls, fcalls, seen, last, earlier, outer, cache>>

\* new Peer(), addReplica and writeRandomDocs of the test.
SyncSetUp ==
    /\ ~sync.made
    /\ sync' = [made |-> TRUE,
                replica |-> [p \in SyncPeers |->
                                [a \in peerReplicas(p) |-> writeRandomDocs(p, a)]],
                coordinator |-> [p \in SyncPeers |->
                                    [started |-> FALSE, commonShares |-> <<>>,
                                     partnerId |-> ""]],
                session |-> [p \in SyncPeers |-> <<>>],
                written |-> 0,
                untilCaughtUp |-> "none"]
    /\ UNCHANGED nonSyncVars

\* start: the handshake gives the common shares and the partner's peerId, and
\* one SyncSession is spawned per common share.
CoordinatorStart(p) ==
    /\ sync.made
    /\ ~sync.coordinator[p].started
    /\ sync' = [sync EXCEPT
           !.coordinator[p] =
               [started |-> TRUE, commonShares |-> commonSharesOf(p),
                partnerId |-> saltedHandshake(partnerOf(p), ConnectionSalt).peerId],
           !.session[p] = [a \in Range(commonSharesOf(p)) |-> NewSession]]
    /\ UNCHANGED nonSyncVars

\* Steps 1 to 3 of the session loop up to the request: the session asks for
\* the partner's highestLocalIndex; it is caught up, or it requests the next
\* batch.
SessionAsk(p, a) ==
    /\ sync.made
    /\ a \in DOMAIN sync.session[p]
    /\ sync.session[p][a].pc = "idle"
    /\ LET session == sync.session[p][a]
           partnerHighest == Len(sync.replica[partnerOf(p)][a])
       IN  sync' = [sync EXCEPT !.session[p][a] =
               IF session.partnerMaxLocalIndexSoFar >= partnerHighest
               THEN [session EXCEPT !.lastSeenPartnerIndex = partnerHighest,
                                    !.caughtUp = TRUE]
               ELSE [session EXCEPT !.lastSeenPartnerIndex = partnerHighest,
                                    !.pc = "fetching",
                                    !.requests = Append(session.requests,
                                        [fromIndex |-> session.partnerMaxLocalIndexSoFar,
                                         limit |-> BatchLimit])]]
    /\ UNCHANGED nonSyncVars

\* The rest of step 3: the partner serves the request, every doc of the batch
\* is upserted locally, and the session's state is updated.
SessionReceive(p, a) ==
    /\ sync.made
    /\ a \in DOMAIN sync.session[p]
    /\ sync.session[p][a].pc = "fetching"
    /\ LET session == sync.session[p][a]
           request == Head(session.requests)
           indexes == getDocsIndexes(partnerOf(p), a, request.fromIndex, request.limit)
           docs == [i \in 1..Len(indexes) |-> sync.replica[partnerOf(p)][a][indexes[i]]]
           ingested == ingest(sync.replica[p][a], docs)
       IN  sync' = [sync EXCEPT
               !.replica[p][a] = ingested,
               !.session[p][a] =
                   [session EXCEPT
                       !.pc = "idle",
                       !.requests = Tail(session.requests),
                       !.fetched = session.fetched \o indexes,
                       !.partnerMaxLocalIndexSoFar =
                           IF indexes = <<>> THEN session.partnerMaxLocalIndexSoFar
                           ELSE indexes[Len(indexes)],
                       !.pulled = session.pulled + Len(ingested) - Len(sync.replica[p][a]),
                       !.caughtUp = FALSE]]
    /\ UNCHANGED nonSyncVars

\* writeRandomDocs on a replica of the target peer once the coordinator runs,
\* one doc at a time.
SyncWrite(p, a) ==
    /\ sync.made
    /\ sync.coordinator[partnerOf(p)].started
    /\ a \in DOMAIN sync.replica[p]
    /\ sync.written < MaxWrites
    /\ sync' = [sync EXCEPT
           !.replica[p][a] = Append(sync.replica[p][a],
               [share |-> a, writer |-> p, n |-> RandomDocs + sync.written + 1]),
           !.written = sync.written + 1]
    /\ UNCHANGED nonSyncVars

\* Every session of every common share, in both directions, reports caughtUp.
AllCaughtUp ==
    /\ sync.made
    /\ \A p \in SyncPeers :
           /\ sync.coordinator[p].started
           /\ \A a \in DOMAIN sync.session[p] : sync.session[p][a].caughtUp

\* Peer.syncUntilCaughtUp is called, and completes.
SyncUntilCaughtUp ==
    /\ sync.made
    /\ \A p \in SyncPeers : sync.coordinator[p].started
    /\ sync.untilCaughtUp = "none"
    /\ sync' = [sync EXCEPT !.untilCaughtUp = "pending"]
    /\ UNCHANGED nonSyncVars

SyncUntilCaughtUpCompletes ==
    /\ sync.made
    /\ sync.untilCaughtUp = "pending"
    /\ AllCaughtUp
    /\ sync' = [sync EXCEPT !.untilCaughtUp = "done"]
    /\ UNCHANGED nonSyncVars

Next ==
    \/ Upsert
    \/ Write

NextEvents ==
    \/ UpsertEvents
    \/ WriteEvents
    \/ OnWrite
    \/ OnWriteUnsubscribe

NextFollowers ==
    \/ UpsertFollowers
    \/ OnWriteOne
    \/ AddSyncFollower
    \/ AddAsyncFollower
    \/ Unsubscribe
    \/ ContinueAsyncFollower
    \/ ResumeAsyncFollower

Spec == Init /\ [][Next]_vars
SpecEvents == Init /\ [][NextEvents]_vars
SpecFollowers == Init /\ [][NextFollowers]_vars

\* An async follower left alone by its subscriber. setImmediate runs every
\* scheduled continuation and an awaited callback that returns resumes the
\* loop, so both steps of the task are weakly fair.
\* ---- a ReplicaCache over the bowl
\* The cache holds one entry per key, the read and its argument. The versions
\* the ReplicaCache test reads fix when an entry counts as updated; what is
\* not in the test follows the specification's section on ReplicaCache.

ReplicaCacheIsClosedError == "ReplicaCacheIsClosedError"

CacheReads == {"cache.getAllDocs", "cache.getLatestDocs", "cache.getLatestDocAtPath"}
CacheOps ==
    CacheReads \cup {"cache.getAllDocsAtPath", "cache.queryDocs", "cache.set",
                     "cache.overwriteAllDocsByAuthor", "cache.onCacheUpdated",
                     "cache.close"}

CacheKeys ==
    {[op |-> "cache.getAllDocs", path |-> 0], [op |-> "cache.getLatestDocs", path |-> 0]}
    \cup {[op |-> "cache.getLatestDocAtPath", path |-> p] : p \in Paths}

\* What the replica answers to the read of a key.
cacheCompute(key) ==
    CASE key.op = "cache.getAllDocs" -> getAllDocs
      [] key.op = "cache.getLatestDocs" -> getLatestDocs
      [] key.op = "cache.getLatestDocAtPath" -> getLatestDocAtPath(key.path)

\* The held keys a write of doc makes the cache compute again.
cacheRefreshesEveryKey(key, doc) == TRUE
cacheRefreshes(key, doc) ==
    key.op = "cache.getLatestDocAtPath" => key.path = doc.path

\* Every method of the cache begins by throwing if the cache is closed.
throwsIfClosedExceptSet(op) == cache.closed /\ op # "cache.set"
throwsIfClosed(op) == cache.closed

\* The cache has seen every write of the replica.
cacheUpToDate == cache.processed = highestLocalIndex

cacheThrows(op) ==
    /\ last' = [op |-> op, error |-> ReplicaCacheIsClosedError]
    /\ calls' = <<>>
    /\ fcalls' = <<>>
    /\ UNCHANGED <<bowlVars, onWriteCbs, followers, follower, task, seen,
                   earlier, outer, sync, cache>>

\* getAllDocs, getLatestDocs, getLatestDocAtPath(path): the first read of a
\* key computes and stores the entry; a later read returns the stored entry,
\* and computes it again first when the entry is older than the time to live
\* (expired: what the clock says at the read).
CacheRead(key, expired) ==
    IF throwsIfClosed(key.op) THEN cacheThrows(key.op)
    ELSE /\ cacheUpToDate
         /\ cache' =
                IF key \notin DOMAIN cache.held
                THEN [cache EXCEPT !.held = MapSet(cache.held, key, cacheCompute(key)),
                                   !.version = cache.version + 1]
                ELSE IF ~expired \/ cacheCompute(key) = cache.held[key] THEN cache
                ELSE [cache EXCEPT !.held = MapSet(cache.held, key, cacheCompute(key)),
                                   !.version = cache.version + 1]
         /\ last' = [op |-> key.op, error |-> "none", expired |-> expired]
         /\ calls' = <<>>
         /\ fcalls' = <<>>
         /\ UNCHANGED <<bowlVars, onWriteCbs, followers, follower, task, seen,
                        earlier, outer, sync>>

\* set: a write on the replica; the cache hears of it afterwards.
CacheSet ==
    IF throwsIfClosed("cache.set") THEN cacheThrows("cache.set")
    ELSE cacheUpToDate /\ WriteEvents

\* The write event reaches the cache: the held entries the doc refreshes are
\* computed again, one update each.
CacheRefresh ==
    /\ ~cache.closed
    /\ ~cacheUpToDate
    /\ LET doc == docWithLocalIndex[highestLocalIndex]
           refreshed == {key \in DOMAIN cache.held : cacheRefreshes(key, doc)}
       IN  cache' = [cache EXCEPT
               !.held = [key \in DOMAIN cache.held |->
                            IF key \in refreshed THEN cacheCompute(key)
                            ELSE cache.held[key]],
               !.version = cache.version + Cardinality(refreshed),
               !.processed = highestLocalIndex]
    /\ last' = NoCall
    /\ calls' = <<>>
    /\ fcalls' = <<>>
    /\ UNCHANGED <<bowlVars, onWriteCbs, followers, follower, task, seen,
                   earlier, outer, sync>>

CacheClose ==
    IF throwsIfClosed("cache.close") THEN cacheThrows("cache.close")
    ELSE /\ cache' = [cache EXCEPT !.closed = TRUE]
         /\ last' = [op |-> "cache.close", error |-> "none"]
         /\ calls' = <<>>
         /\ fcalls' = <<>>
         /\ UNCHANGED <<bowlVars, onWriteCbs, followers, follower, task, seen,
                        earlier, outer, sync>>

\* getAllDocsAtPath, queryDocs, overwriteAllDocsByAuthor and onCacheUpdated:
\* of these only the call on a closed cache is modelled.
CacheCallClosed(op) ==
    /\ throwsIfClosed(op)
    /\ cacheThrows(op)

\* Reads, writes and refreshes of an open cache.
NextCache ==
    \/ \E key \in CacheKeys, expired \in BOOLEAN : CacheRead(key, expired)
    \/ CacheSet
    \/ CacheRefresh

SpecCache == Init /\ [][NextCache]_vars

\* Every method of the cache, before and after close; the reads are those of
\* the keys without a path and of path 1, within the time to live.
NextCacheClose ==
    \/ \E key \in {k \in CacheKeys : k.path # 2} : CacheRead(key, FALSE)
    \/ CacheSet
    \/ CacheRefresh
    \/ CacheClose
    \/ \E op \in CacheOps \ (CacheReads \cup {"cache.set", "cache.close"}) :
           CacheCallClosed(op)

SpecCacheClose == Init /\ [][NextCacheClose]_vars

NextReentrant ==
    \/ UpsertFollowers
    \/ OnWriteIdle
    \/ AddSyncFollowerIdle
    \/ UpsertSuspends
    \/ AddSyncFollowerSuspends
    \/ ResumeOuter

SpecReentrant == Init /\ [][NextReentrant]_vars

\* Upserts that end normally and upserts a callback throws out of, on a bowl
\* with onWrite callbacks, sync followers and async followers.
NextThrows ==
    \/ UpsertFollowers
    \/ UpsertThrows
    \/ OnWriteOne
    \/ AddSyncFollower
    \/ AddAsyncFollower
    \/ ContinueAsyncFollower
    \/ ResumeAsyncFollower

SpecThrows == Init /\ [][NextThrows]_vars

NextAsync ==
    \/ UpsertFollowers
    \/ AddAsyncFollower
    \/ ContinueAsyncFollower
    \/ ResumeAsyncFollower

NextQuery ==
    \/ UpsertQuery
    \/ QueryDocs
    \/ QueryPaths

SpecQuery == Init /\ [][NextQuery]_vars

NextOrder ==
    \/ UpsertOrder
    \/ NewBowl

SpecOrder == Init /\ [][NextOrder]_vars

SpecAsyncFair ==
    /\ Init
    /\ [][NextAsync]_vars
    /\ WF_vars(ContinueAsyncFollower)
    /\ WF_vars(ResumeAsyncFollower)

\* Both peers run a coordinator over the connection.
NextSync ==
    \/ SyncSetUp
    \/ \E p \in SyncPeers : CoordinatorStart(p)
    \/ \E p \in SyncPeers, a \in Range(Addresses) : SessionAsk(p, a)
    \/ \E p \in SyncPeers, a \in Range(Addresses) : SessionReceive(p, a)
    \/ SyncUntilCaughtUp
    \/ SyncUntilCaughtUpCompletes

SpecSync == Init /\ [][NextSync]_vars

\* The sessions are tasks of the event loop and the RPCs succeed: a session
\* that can take its next step takes it, and a pending syncUntilCaughtUp
\* that can complete does.
SpecSyncFair ==
    /\ Init
    /\ [][NextSync]_vars
    /\ \A p \in SyncPeers, a \in Range(Addresses) :
           WF_vars(SessionAsk(p, a) \/ SessionReceive(p, a))
    /\ WF_vars(SyncUntilCaughtUpCompletes)

\* The test's run: one coordinator, on peer, pulling from targetPeer, and
\* docs written on targetPeer's replicas while it runs.
NextPull ==
    \/ SyncSetUp
    \/ CoordinatorStart("peer")
    \/ \E a \in Range(Addresses) : SessionAsk("peer", a)
    \/ \E a \in Range(Addresses) : SessionReceive("peer", a)
    \/ \E a \in Range(Addresses) : SyncWrite("targetPeer", a)

SpecPullFair ==
    /\ Init
    /\ [][NextPull]_vars
    /\ \A a \in Range(Addresses) :
           WF_vars(SessionAsk("peer", a) \/ SessionReceive("peer", a))

\* ---------------------------------------------------------------- claims

Calls == {"upsert", "write"}
Accepted == {AcceptedButNotLatest, AcceptedAndLatest}
Rejected == {Invalid, Obsolete, AlreadyHadIt}

\* a's overwrite key (timestamp, signature) is strictly greater than b's.
KeyGreater(a, b) ==
    \/ a.timestamp > b.timestamp
    \/ a.timestamp = b.timestamp /\ a.signature > b.signature

SamePathAndAuthor(a, b) == a.path = b.path /\ a.author = b.author

\* C1: getAllDocs() and getAllDocsAtPath(path) never hold two documents with
\* the same path and author.
C1_OneDocPerPathAndAuthor ==
    /\ \A i, j \in DOMAIN docWithLocalIndex :
           i # j => ~SamePathAndAuthor(docWithLocalIndex[i], docWithLocalIndex[j])
    /\ \A path \in DOMAIN docsByPathNewestFirst :
           \A i, j \in 1..Len(docsByPathNewestFirst[path]) :
               i # j => ~SamePathAndAuthor(docsByPathNewestFirst[path][i],
                                           docsByPathNewestFirst[path][j])

\* C2: the document the (path, author) index holds is the maximum, under
\* (timestamp, signature), of the documents with that path and author ever
\* passed to upsert.
C2_StoredIsMaximumSeen ==
    \A s \in seen :
        /\ combinePathAndAuthor(s) \in DOMAIN docWithPathAndAuthor
        /\ signed(docWithPathAndAuthor[combinePathAndAuthor(s)]) \in seen
        /\ \/ signed(docWithPathAndAuthor[combinePathAndAuthor(s)]) = s
           \/ KeyGreater(docWithPathAndAuthor[combinePathAndAuthor(s)], s)

\* C2 witness: an older document arrived after a newer one of the same path
\* and author and was turned down.
C2_Witness ==
    /\ last.op = "upsert"
    /\ last.result = Obsolete
    /\ \E s \in seen : SamePathAndAuthor(s, last.doc) /\ KeyGreater(s, last.doc)

\* C3: every accepted upsert adds one to highestLocalIndex and stores its
\* document under that number, whatever _localIndex the document came with.
C3_LocalIndexIsNext ==
    [][last'.op \in Calls /\ last'.result \in Accepted =>
        /\ highestLocalIndex' = highestLocalIndex + 1
        /\ highestLocalIndex' \in DOMAIN docWithLocalIndex'
        /\ signed(docWithLocalIndex'[highestLocalIndex']) = last'.doc
        /\ docWithLocalIndex'[highestLocalIndex']._localIndex = highestLocalIndex'
        /\ docWithPathAndAuthor'[combinePathAndAuthor(last'.doc)]._localIndex
               = highestLocalIndex'
        /\ \A i \in DOMAIN docWithLocalIndex :
               /\ i < highestLocalIndex'
               /\ docWithLocalIndex[i]._localIndex < highestLocalIndex'
    ]_vars

\* C3 witness: a second document was accepted and carries _localIndex 2.
C3_Witness ==
    /\ last.op \in Calls
    /\ last.result \in Accepted
    /\ highestLocalIndex = 2
    /\ docWithPathAndAuthor[combinePathAndAuthor(last.doc)]._localIndex = 2

\* C4: upsert(d) returns Obsolete exactly when the (path, author) index holds
\* a document with a strictly greater (timestamp, signature), AlreadyHadIt
\* exactly when it holds one with the same timestamp and signature, and
\* accepts d otherwise.
C4_UpsertResult ==
    [][last'.op \in Calls =>
        LET d == last'.doc
            held == combinePathAndAuthor(d) \in DOMAIN docWithPathAndAuthor
            e == docWithPathAndAuthor[combinePathAndAuthor(d)]
        IN  /\ last'.result = Obsolete <=> (held /\ KeyGreater(e, d))
            /\ last'.result = AlreadyHadIt <=>
                   (held /\ e.timestamp = d.timestamp /\ e.signature = d.signature)
            /\ last'.result \in Accepted <=> (held => KeyGreater(d, e))
    ]_vars

\* C4 witness: a document was turned down as Obsolete on the signature alone.
C4_Witness ==
    /\ last.op = "upsert"
    /\ last.result = Obsolete
    /\ docWithPathAndAuthor[combinePathAndAuthor(last.doc)].timestamp
           = last.doc.timestamp

\* C5: an upsert that returns Invalid, Obsolete or AlreadyHadIt changes
\* nothing in the bowl and calls no callback.
C5_RejectedChangesNothing ==
    [][last'.op \in Calls /\ last'.result \in Rejected =>
        /\ UNCHANGED <<highestLocalIndex, docWithLocalIndex, docWithPathAndAuthor,
                       docsByPathNewestFirst, onWriteCbs, followers, follower, task>>
        /\ calls' = <<>>
        /\ fcalls' = <<>>
    ]_vars

\* C5 witness: an upsert was turned down while a callback and a sync follower
\* were registered.
C5_Witness ==
    /\ last.op = "upsert"
    /\ last.result \in Rejected
    /\ onWriteCbs # <<>>
    /\ \E f \in Following : follower[f].kind = "sync"

\* C6: of two documents different authors hold at one path, the per-path
\* sequence puts first the one with the greater timestamp and, the
\* timestamps being equal, the one with the greater signature.
C6_LatestByTimestampThenSignature ==
    \A path \in DOMAIN docsByPathNewestFirst :
        \A i, j \in 1..Len(docsByPathNewestFirst[path]) :
            /\ i < j
            /\ docsByPathNewestFirst[path][i].author
                   # docsByPathNewestFirst[path][j].author
            => KeyGreater(docsByPathNewestFirst[path][i],
                          docsByPathNewestFirst[path][j])

\* C7: write returns AcceptedAndLatest and the document written is the
\* latest at its path.
C7_WriteIsLatest ==
    [][last'.op = "write" =>
        /\ last'.result = AcceptedAndLatest
        /\ last'.doc.path \in DOMAIN docsByPathNewestFirst'
        /\ signed(docsByPathNewestFirst'[last'.doc.path][1]) = last'.doc
    ]_vars

\* C7 witness: a write at a path where another author holds a document with
\* a timestamp ahead of the clock.
C7_Witness ==
    /\ last.op = "write"
    /\ \E i \in 1..Len(docsByPathNewestFirst[last.doc.path]) :
           /\ docsByPathNewestFirst[last.doc.path][i].author # last.doc.author
           /\ docsByPathNewestFirst[last.doc.path][i].timestamp > last.now

Max(a, b) == IF a > b THEN a ELSE b

\* C8: write stamps the document with max(now, latestAtPath.timestamp + 1),
\* and with now at an empty path.
C8_WriteTimestampIsMax ==
    [][last'.op = "write" =>
        last'.doc.timestamp =
            IF getLatestDocAtPath(last'.doc.path) = undefined THEN last'.now
            ELSE Max(last'.now, getLatestDocAtPath(last'.doc.path).timestamp + 1)
    ]_vars

\* C9: an accepted upsert calls every registered onWrite callback exactly
\* once, with the stored document, and calls no other callback.
C9_OneEventPerCallback ==
    [][last'.op \in Calls /\ last'.result \in Accepted =>
        /\ \A cb \in Registered :
               Cardinality({i \in DOMAIN calls' : calls'[i].cb = cb}) = 1
        /\ \A i \in DOMAIN calls' :
               /\ calls'[i].cb \in Registered
               /\ calls'[i].event.doc = docWithLocalIndex'[highestLocalIndex']
               /\ signed(calls'[i].event.doc) = last'.doc
    ]_vars

\* C9 witness: an accepted upsert with two callbacks registered.
C9_Witness ==
    /\ last.op \in Calls
    /\ last.result \in Accepted
    /\ Len(onWriteCbs) = 2
    /\ Len(calls) = 2

\* C10: in a write event isLatest says the result is AcceptedAndLatest,
\* previousDocSameAuthor is the author's former document at the path, and
\* previousLatestDoc is the path's former latest document when the new one is
\* the latest, and undefined otherwise.
C10_WriteEventFields ==
    [][last'.op \in Calls /\ last'.result \in Accepted =>
        \A i \in DOMAIN calls' :
            LET ev == calls'[i].event
                d == last'.doc
            IN  /\ ev.isLatest <=> last'.result = AcceptedAndLatest
                /\ ev.previousDocSameAuthor =
                       IF combinePathAndAuthor(d) \in DOMAIN docWithPathAndAuthor
                       THEN docWithPathAndAuthor[combinePathAndAuthor(d)]
                       ELSE undefined
                /\ ev.previousLatestDoc # undefined <=>
                       (ev.isLatest /\ d.path \in DOMAIN docsByPathNewestFirst)
                /\ ev.previousLatestDoc # undefined =>
                       ev.previousLatestDoc = getLatestDocAtPath(d.path)
    ]_vars

\* C10 witness: an event whose previousLatestDoc is another author's document.
C10_Witness ==
    /\ calls # <<>>
    /\ calls[1].event.isLatest
    /\ calls[1].event.previousLatestDoc # undefined
    /\ calls[1].event.previousDocSameAuthor = undefined

\* ------------------------------------------------------- claims: followers

\* The calls a step made to follower f's callback.
CallsOf(cs, f) == SelectSeq(cs, LAMBDA c : c.follower = f)

\* The local indexes at or above n at which the bowl holds a document.
IndexesSince(n) == {i \in DOMAIN docWithLocalIndex : i >= n}

\* The step is an addFollower that registers f.
Adds(f) == f \notin DOMAIN follower /\ f \in DOMAIN follower'

C12_NextIndexPastDelivered ==
    [][/\ \A f \in SyncIds :
            Adds(f) /\ CallsOf(fcalls', f) # <<>> =>
                follower'[f].nextIndex = highestLocalIndex' + 1
       /\ last'.op \in Calls /\ last'.result \in Accepted =>
            \A f \in SyncIds \cap Following :
                follower'[f].nextIndex = highestLocalIndex' + 1
       /\ \A f \in AsyncIds \cap DOMAIN task :
            task[f].pc = "awaiting" /\ task'[f] # task[f] =>
                follower'[f].nextIndex > task[f].delivered
    ]_vars

\* C13: the _localIndex values delivered to an async follower are strictly
\* increasing over its whole life: every call of its callback carries a
\* _localIndex greater than the one of the call before.
C13_AsyncStrictlyIncreasing ==
    [][\A f \in AsyncIds \cap DOMAIN task :
           \A i \in DOMAIN fcalls' :
               fcalls'[i].follower = f =>
                   fcalls'[i].doc._localIndex > task[f].delivered
    ]_vars

\* C14: under fair scheduling a registered async follower reaches the
\* sleeping state, whatever the bowl holds and whatever is upserted meanwhile
\* (only finitely many upserts are accepted).
C14_AsyncFollowerSleeps ==
    \A f \in AsyncIds :
        (f \in DOMAIN follower) ~>
            (f \in DOMAIN follower /\ follower[f].state = "sleeping")

\* C15: unsubscribing puts the follower in the terminal state quitting; its
\* callback is not called again and its task does not raise an error.
C15_UnsubscribedIsQuitting ==
    \A f \in DOMAIN follower \ Following :
        /\ follower[f].state = "quitting"
        /\ task[f].pc # "threw"
        /\ \A i \in DOMAIN fcalls : fcalls[i].follower # f

\* --------------------------------------------------------- claims: queries

\* The paths at which the bowl holds a document.
PathsHeld == {docWithLocalIndex[i].path : i \in DOMAIN docWithLocalIndex}

\* C16: getLatestDocs() returns exactly one document for each path at which
\* the bowl holds a document and none for any other path, and that document
\* is element 0 of getAllDocsAtPath(path), which is getLatestDocAtPath(path).
C16_OneLatestDocPerPath ==
    \A path \in Paths :
        LET at == {k \in 1..Len(getLatestDocs) : getLatestDocs[k].path = path}
        IN  IF path \in PathsHeld
            THEN /\ Cardinality(at) = 1
                 /\ \A k \in at :
                        /\ getLatestDocs[k] = getAllDocsAtPath(path)[1]
                        /\ getLatestDocs[k] = getLatestDocAtPath(path)
            ELSE at = {}

\* C16 witness: a path holds the documents of two authors.
C16_Witness ==
    \E path \in DOMAIN docsByPathNewestFirst :
        /\ Len(docsByPathNewestFirst[path]) = 2
        /\ docsByPathNewestFirst[path][1].author # docsByPathNewestFirst[path][2].author
        /\ docsByPathNewestFirst[path][1].timestamp > docsByPathNewestFirst[path][2].timestamp

\* The query is given and sets the field.
Sets(query, field) == query # undefined /\ Has(query, field)

\* The query without one of its fields.
Without(query, field) == [f \in DOMAIN query \ {field} |-> query[f]]

\* C17: queryPaths(Q) is the list, ascending and without duplicates, of the
\* paths of the documents of queryDocs(Q), reversed when Q.orderBy is
\* 'path DESC'; this for every query, the empty and the absent one included.
C17_QueryPathsOfQueryDocs ==
    last.op = "queryPaths" =>
        LET docs == queryDocs(last.query)
            paths == sortAscending({docs[i].path : i \in 1..Len(docs)})
        IN  last.result =
                IF Sets(last.query, "orderBy") /\ last.query.orderBy = "path DESC"
                THEN Reverse(paths) ELSE paths

\* C17 witness: the paths of all the documents of a bowl, asked in descending
\* order, are two.
C17_Witness ==
    /\ last.op = "queryPaths"
    /\ Sets(last.query, "orderBy")
    /\ last.query.orderBy = "path DESC"
    /\ Len(last.result) = 2

\* What the numeric filters say by their names.
NumericFields ==
    {"timestamp", "timestampGt", "timestampLt",
     "contentLength", "contentLengthGt", "contentLengthLt"}
NumericFiltersPass(doc, filter) ==
    /\ Has(filter, "timestamp") => doc.timestamp = filter.timestamp
    /\ Has(filter, "timestampGt") => doc.timestamp > filter.timestampGt
    /\ Has(filter, "timestampLt") => doc.timestamp < filter.timestampLt
    /\ Has(filter, "contentLength") => contentLength(doc) = filter.contentLength
    /\ Has(filter, "contentLengthGt") => contentLength(doc) > filter.contentLengthGt
    /\ Has(filter, "contentLengthLt") => contentLength(doc) < filter.contentLengthLt

\* C18: the numeric filters mean what they are named: of the documents the
\* query gives without its filter, queryDocs returns those that pass every
\* numeric filter set (Lt is <, Gt is >, the bare name is equality).
C18_NumericFiltersAsNamed ==
    /\ last.op = "queryDocs"
    /\ Sets(last.query, "filter")
    /\ DOMAIN last.query.filter \subseteq NumericFields
    /\ ~Has(last.query, "limit")
    => Range(last.result) =
           {doc \in Range(queryDocs(Without(last.query, "filter"))) :
                NumericFiltersPass(doc, last.query.filter)}

\* String.prototype.endsWith.
endsWith(text, s) ==
    /\ Len(s) <= Len(text)
    /\ SubSeq(text, Len(text) - Len(s) + 1, Len(text)) = s

\* C19: pathStartsWith = s keeps the documents whose path begins with s and
\* pathEndsWith = s those whose path ends with s: a document whose path
\* starts with s and does not end with s is left out by pathEndsWith = s.
C19_PathEndsWithIsSuffix ==
    /\ last.op = "queryDocs"
    /\ Sets(last.query, "filter")
    /\ DOMAIN last.query.filter \subseteq {"pathStartsWith", "pathEndsWith"}
    /\ ~Has(last.query, "limit")
    => Range(last.result) =
           {doc \in Range(queryDocs(Without(last.query, "filter"))) :
                /\ Has(last.query.filter, "pathStartsWith") =>
                       startsWith(PathText(doc.path), last.query.filter.pathStartsWith)
                /\ Has(last.query.filter, "pathEndsWith") =>
                       endsWith(PathText(doc.path), last.query.filter.pathEndsWith)}

Min(a, b) == IF a < b THEN a ELSE b

\* C20: with limit = n queryDocs returns the first n of the documents that the
\* query gives without its limit (all of them when they are fewer), so at
\* most n documents, and none when n is 0.
C20_LimitBoundsResult ==
    last.op = "queryDocs" /\ Sets(last.query, "limit") =>
        LET docs == queryDocs(Without(last.query, "limit"))
        IN  last.result = SubSeq(docs, 1, Min(last.query.limit, Len(docs)))

\* The startAt of the query bounds the axis of its orderBy, and doc is within
\* the bound: at or above it in ascending order, at or below in descending.
OnAxis(query) ==
    \/ /\ withDefaults(query).orderBy \in {"path ASC", "path DESC"}
       /\ Has(query.startAt, "path")
    \/ /\ withDefaults(query).orderBy \in {"localIndex ASC", "localIndex DESC"}
       /\ Has(query.startAt, "localIndex")
WithinStartAt(query, doc) ==
    LET orderBy == withDefaults(query).orderBy
    IN  /\ orderBy = "path ASC" => doc.path >= query.startAt.path
        /\ orderBy = "path DESC" => doc.path <= query.startAt.path
        /\ orderBy = "localIndex ASC" => doc._localIndex >= query.startAt.localIndex
        /\ orderBy = "localIndex DESC" => doc._localIndex <= query.startAt.localIndex

\* C21: startAt is an inclusive bound on the axis of orderBy: queryDocs
\* returns only documents within the bound, and without a limit all of those
\* the query gives without startAt; a startAt for the other axis changes
\* nothing.
C21_StartAtIsInclusiveBound ==
    last.op = "queryDocs" /\ Sets(last.query, "startAt") =>
        LET unbounded == queryDocs(Without(last.query, "startAt"))
        IN  IF OnAxis(last.query)
            THEN /\ \A doc \in Range(last.result) : WithinStartAt(last.query, doc)
                 /\ ~Has(last.query, "limit") =>
                        last.result =
                            SelectSeq(unbounded,
                                      LAMBDA doc : WithinStartAt(last.query, doc))
            ELSE last.result = unbounded

\* C21 witness: a query in ascending path order from path 2 returns the
\* document at path 2 and leaves out the one at path 1.
C21_Witness ==
    /\ last.op = "queryDocs"
    /\ Sets(last.query, "startAt")
    /\ last.query.orderBy = "path ASC"
    /\ last.query.startAt = [path |-> 2]
    /\ Len(last.result) = 1
    /\ Cardinality(PathsHeld) = 2

\* C22: conflict resolution is independent of arrival order: a bowl given the
\* same set of documents as an earlier bowl, in whatever order, answers
\* queryDocs({history: 'all', orderBy: 'path ASC'}) with the same sequence of
\* documents and has the same latest document at every path.
C22_ArrivalOrderIndependent ==
    earlier.given /\ seen = earlier.seen => bowlAnswers = earlier.answers

\* ---------------------------------------------------------------- claims: follower bounds and re-entrant writes

\* C29: a follower's callback is only called with documents whose _localIndex
\* is at least the nextIndex the follower declared when it was registered,
\* and a follower's nextIndex never decreases; this includes a sync follower
\* registered with a nextIndex above highestLocalIndex + 1 when later upserts
\* are accepted.
C29_CalledFromDeclaredNextIndex ==
    [][/\ \A i \in DOMAIN fcalls' :
              fcalls'[i].doc._localIndex >= follower'[fcalls'[i].follower].declared
       /\ \A f \in DOMAIN follower :
              follower'[f].nextIndex >= follower[f].nextIndex]_vars

\* The _localIndex a sync follower was handed before call i of the step: by
\* the call before it in the same step, or else by the steps before.
deliveredBefore(i) ==
    LET f == fcalls'[i].follower
        before == {j \in 1..(i - 1) : fcalls'[j].follower = f}
    IN  IF before # {}
        THEN fcalls'[CHOOSE j \in before : \A k \in before : k <= j].doc._localIndex
        ELSE IF f \in DOMAIN task THEN task[f].delivered ELSE 0

\* C30: when a callback calls upsert on the same bowl during the catch-up of
\* addFollower or while an outer upsert is notifying, every sync follower
\* still gets the documents in strictly increasing _localIndex order, each
\* accepted document once: each call hands over a later document than the
\* call before, and the next one once the first was handed over.
C30_ReentrantWritesKeepOrder ==
    [][\A i \in DOMAIN fcalls' :
           follower'[fcalls'[i].follower].kind = "sync" =>
               /\ fcalls'[i].doc._localIndex > deliveredBefore(i)
               /\ deliveredBefore(i) > 0 =>
                      fcalls'[i].doc._localIndex = deliveredBefore(i) + 1]_vars

\* ------------------------------------------------------------ claims: sync

\* The session of peer p for share a before a step, a new one when the step
\* spawns it.
sessionBefore(p, a) ==
    IF sync.made /\ a \in DOMAIN sync.session[p]
    THEN sync.session[p][a] ELSE NewSession

NoDuplicates(seq) == Cardinality(Range(seq)) = Len(seq)

C25_BatchesOfTenAboveMax ==
    [][sync'.made =>
          \A p \in SyncPeers : \A a \in DOMAIN sync'.session[p] :
              LET before == sessionBefore(p, a)
                  after == sync'.session[p][a]
                  batch == SubSeq(after.fetched, Len(before.fetched) + 1,
                                  Len(after.fetched))
              IN  /\ Len(after.requests) <= 1
                  /\ \A i \in DOMAIN after.requests :
                         /\ after.requests[i].limit <= 10
                         /\ after.requests[i].fromIndex = after.partnerMaxLocalIndexSoFar
                  /\ after.partnerMaxLocalIndexSoFar >= before.partnerMaxLocalIndexSoFar
                  /\ Len(batch) <= 10
                  /\ \A i \in DOMAIN batch : batch[i] > before.partnerMaxLocalIndexSoFar
                  /\ batch # <<>> =>
                         /\ after.partnerMaxLocalIndexSoFar = batch[Len(batch)]
                         /\ \A i \in DOMAIN batch : batch[i] <= batch[Len(batch)]
                  /\ NoDuplicates(after.fetched)]_vars

\* C25 witness: a session has fetched more docs than one batch holds, while
\* its next request is in flight.
C25_Witness ==
    /\ sync.made
    /\ \E p \in SyncPeers : \E a \in DOMAIN sync.session[p] :
           /\ Len(sync.session[p][a].fetched) = BatchLimit
           /\ Len(sync.replica[partnerOf(p)][a]) > BatchLimit
           /\ Len(sync.session[p][a].requests) = 1

\* Peer p holds every doc its partner's replica of share a holds.
hasAllDocs(p, a) ==
    Range(sync.replica[partnerOf(p)][a]) \subseteq Range(sync.replica[p][a])

\* C24: once the coordinator has been started and the RPCs succeed, every
\* doc the partner's replica of a common share holds is eventually upserted
\* into the local replica, the docs that were there before start and the docs
\* written on the partner after the session had caught up alike; the docs of a
\* share that is not common are never transferred.
C24_PartnerDocsArrive ==
    /\ [](sync.made /\ sync.coordinator["peer"].started =>
             <>[](/\ sync.made
                  /\ \A a \in Range(sync.coordinator["peer"].commonShares) :
                         hasAllDocs("peer", a)))
    /\ [](sync.made =>
             \A p \in SyncPeers : \A a \in DOMAIN sync.replica[p] :
                 \A d \in Range(sync.replica[p][a]) :
                     /\ d.share = a
                     /\ d.writer # p => a \in DOMAIN sync.replica[partnerOf(p)])

\* C24 witness: the session of share A was caught up with the partner's
\* first docs, then fetched the doc written on the partner afterwards, and
\* the local replica holds it.
C24_Witness ==
    /\ sync.made
    /\ sync.coordinator["peer"].started
    /\ sync.session["peer"]["A"].caughtUp
    /\ sync.session["peer"]["A"].fetched = [i \in 1..(RandomDocs + 1) |-> i]
    /\ \E d \in Range(sync.replica["peer"]["A"]) :
           d.writer = "targetPeer" /\ d.n > RandomDocs

\* C26: when the peers have stopped writing and the RPCs succeed, every
\* session of every common share comes to report caughtUp in both
\* directions and goes on doing so; a pending syncUntilCaughtUp completes,
\* and it completes only in a state where every session of both directions
\* reports caughtUp.
C26_SyncUntilCaughtUpTerminates ==
    /\ [](sync.made /\ (\A p \in SyncPeers : sync.coordinator[p].started) =>
             <>[]AllCaughtUp)
    /\ [](sync.made /\ sync.untilCaughtUp = "pending" =>
             <>(sync.made /\ sync.untilCaughtUp = "done"))
    /\ [][(/\ sync'.made
           /\ sync'.untilCaughtUp = "done"
           /\ ~(sync.made /\ sync.untilCaughtUp = "done")) => AllCaughtUp]_vars

\* C26 witness: syncUntilCaughtUp has completed after the sessions of both
\* directions pulled docs.
C26_Witness ==
    /\ sync.made
    /\ sync.untilCaughtUp = "done"
    /\ \A p \in SyncPeers : \A a \in DOMAIN sync.session[p] :
           sync.session[p][a].fetched # <<>>

\* ----------------------------------------------------------- claims: cache

\* The held keys a write at path refreshes: getAllDocs, getLatestDocs and
\* getLatestDocAtPath of that path.
refreshedByWriteAt(path) ==
    {key \in DOMAIN cache.held :
        \/ key.op \in {"cache.getAllDocs", "cache.getLatestDocs"}
        \/ key.op = "cache.getLatestDocAtPath" /\ key.path = path}

\* C27: the version of a ReplicaCache starts at 0 and goes up by one each time
\* a held entry is computed or refreshed: by one at the first read of a key,
\* by one per held key a successful write refreshes (getAllDocs,
\* getLatestDocs and getLatestDocAtPath of the path written, not
\* getLatestDocAtPath of another path), and by nothing when a held key is read
\* again while the replica has not changed, even after its time to live.
C27_VersionCountsUpdates ==
    /\ cache.version = 0
    /\ [][cache'.version =
              cache.version
              + Cardinality(DOMAIN cache'.held \ DOMAIN cache.held)
              + (IF cache'.processed = cache.processed THEN 0
                 ELSE Cardinality(
                          refreshedByWriteAt(docWithLocalIndex[cache'.processed].path)))
         ]_vars

\* C27 witness: three keys were read for the first time (version 3), a write
\* at path 1 refreshed getAllDocs and getLatestDocs but not
\* getLatestDocAtPath of path 2 (version 5), and getLatestDocs was then read
\* again after its time to live.
C27_Witness ==
    /\ cache.version = 5
    /\ cache.processed = 1
    /\ highestLocalIndex = 1
    /\ DOMAIN cache.held =
           {[op |-> "cache.getAllDocs", path |-> 0],
            [op |-> "cache.getLatestDocs", path |-> 0],
            [op |-> "cache.getLatestDocAtPath", path |-> 2]}
    /\ cache.held[[op |-> "cache.getLatestDocs", path |-> 0]] = getLatestDocs
    /\ last.op = "cache.getLatestDocs"
    /\ last.expired

\* C28: once close has completed isClosed is true, and every method of the
\* cache (the reads, queryDocs, set, overwriteAllDocsByAuthor, onCacheUpdated
\* and a second close) fails with the cache-closed error and changes neither
\* the version nor the replica.
C28_ClosedCacheRefusesEveryCall ==
    [][/\ last'.op = "cache.close" /\ last'.error = "none" => cache'.closed
       /\ cache.closed =>
              /\ cache'.closed
              /\ cache'.version = cache.version
              /\ UNCHANGED bowlVars
              /\ last'.op \in CacheOps /\ last'.error = ReplicaCacheIsClosedError
      ]_vars

\* C28 witness: set was called on a closed cache that had computed entries
\* over a replica holding a doc.
C28_Witness ==
    /\ cache.closed
    /\ cache.version > 0
    /\ highestLocalIndex > 0
    /\ last.op = "cache.set"
    /\ last.error = ReplicaCacheIsClosedError
\* C31: a callback that throws during an accepted upsert costs no other
\* consumer the document: every sync follower registered on the bowl is called
\* with it before upsert is left, every sleeping async follower is woken, and
\* the doc is in all three indexes.
C31_ThrowingCallbackCostsNoDocument ==
    [][Has(last', "threw") =>
          LET doc == docWithLocalIndex'[highestLocalIndex']
          IN  /\ highestLocalIndex' = highestLocalIndex + 1
              /\ doc._localIndex = highestLocalIndex'
              /\ docWithPathAndAuthor'[combinePathAndAuthor(doc)] = doc
              /\ \E i \in DOMAIN docsByPathNewestFirst'[doc.path] :
                     docsByPathNewestFirst'[doc.path][i] = doc
              /\ \A f \in Following :
                     IF follower[f].kind = "sync"
                     THEN \E i \in DOMAIN fcalls' :
                              fcalls'[i] = [follower |-> f, doc |-> doc]
                     ELSE follower[f].state = "sleeping" =>
                              /\ follower'[f].state = "running"
                              /\ task'[f].pc = "scheduled"]_vars

\* C32: no lost wake-up. Between operations a registered async follower that
\* is sleeping has nextIndex > highestLocalIndex; a task is started only for
\* a follower whose earlier task is over, so at most one continuation is
\* scheduled; an upsert accepted while the follower is running leaves its
\* task as it is, and the follower goes to sleep only when every doc from its
\* declared nextIndex on was handed to its callback.
C32_NoLostWakeUp ==
    [][\A f \in AsyncIds \cap DOMAIN follower' :
          /\ f \in Following' /\ follower'[f].state = "sleeping" =>
                 follower'[f].nextIndex > highestLocalIndex'
          /\ /\ follower'[f].state = "running"
             /\ f \in DOMAIN follower
             /\ follower[f].state = "sleeping"
             => task[f].pc = "none"
          /\ /\ f \in DOMAIN follower
             /\ follower[f].state = "running"
             /\ highestLocalIndex' = highestLocalIndex + 1
             => /\ task'[f] = task[f]
                /\ follower'[f] = follower[f]
          /\ /\ f \in DOMAIN follower
             /\ follower[f].state = "running"
             /\ follower'[f].state = "sleeping"
             /\ f \in Following'
             => \A i \in follower[f].declared..highestLocalIndex :
                    i <= task[f].delivered]_vars

====
